---------------------------- MODULE Spec2Model ----------------------------
(***************************************************************************)
(* Model of the storage-controllers repository: the perc8xx backend        *)
(* (storage_controllers/controllers/perc8xx.py) and the salt facade        *)
(* (utils/controller.py).                                                  *)
(*                                                                         *)
(* Text values (identifiers, names) are sequences of one-character         *)
(* strings, so that formatting and parsing are computed character by       *)
(* character.  A Python exception is a record [kind |-> "raise", exc, err] *)
(* where exc is the Python class and err the raise site (named after the   *)
(* error taxonomy); a returned value is [kind |-> "ok", val].              *)
(***************************************************************************)
EXTENDS Integers, Sequences, FiniteSets, TLC

\* Number of logical-drive slots of the modelled controller.
MaxVdisks == 3
\* Number of physical-drive bays of the modelled controller.
MaxPdisks == 2
\* Number of lines of /proc/bus/pci/devices scanned.
MaxPci == 2
\* Number of record entries in a response drawn as input.
MaxEntries == 2
\* Longest identifier text drawn as input.
MaxIdLen == 2
\* Largest status code drawn as input.
MaxCode == 5

VARIABLES
    vdisks,        \* the controller's logical drives, as the external tool sees them
    ownNum,        \* ghost: slot of the drive the pending creation command created (0: none)
    extCreated,    \* ghost: an external creation happened during the pending operation
    pc,            \* position of the operation in progress
    op,            \* operation in progress: "none", "create", "delete", "blink", "unblink"
    arg,           \* the operation's identifier argument (physical drive spec or drive id)
    before_ids,    \* create_logical_drive: first snapshot
    new_vdisk_ids, \* create_logical_drive: after_ids - before_ids
    held,          \* the LogicalDrive / PhysicalDrive instance under construction
    info,          \* LogicalDrive.delete: the dict captured by get_info()
    cmds,          \* the external commands the operation has run, in order
    stat,          \* CustomStat children of the omconfig response read (None: none read)
    retOwn,        \* ghost: the drive the fetch read was the one the command created
    via,           \* ghost: the entry the operation was called through
    result,        \* the operation's outcome
    f_pci,         \* facade: the PCI identifiers of /proc/bus/pci/devices, in order
    f_plugins,     \* facade: what of storage_controllers.controllers can be imported
    f_op,          \* facade: the last facade function called
    f_model,       \* facade: module-level name `model` ("unbound" or a backend name)
    f_state,       \* facade: "boot", "loaded", "crashed"
    f_controller,  \* facade: module-level name `controller` ("unbound" or a backend name)
    f_result,      \* facade: outcome of the last facade call
    p_in,          \* pure functions: the input drawn
    p_out          \* pure functions: the output computed

wvars == <<vdisks, ownNum, extCreated, pc, op, arg, before_ids, new_vdisk_ids,
           held, info, cmds, stat, retOwn, via, result>>
fvars == <<f_pci, f_plugins, f_op, f_model, f_state, f_controller, f_result>>
pvars == <<p_in, p_out>>
vars == <<wvars, fvars, pvars>>

---------------------------------------------------------------------------
(* Values *)

None == [kind |-> "none"]
Ok(v) == [kind |-> "ok", val |-> v]
Raise(exc, err) == [kind |-> "raise", exc |-> exc, err |-> err]
IsOk(r) == r.kind = "ok"
IsRaise(r) == r.kind = "raise"

Digit(n) == <<"0", "1", "2", "3", "4", "5", "6", "7", "8", "9">>[n + 1]
\* str(n) for a small natural number
IdStr(n) == IF n < 10 THEN <<Digit(n)>> ELSE <<Digit(n \div 10), Digit(n % 10)>>

VdiskNums == 1..MaxVdisks
PdiskNums == 1..MaxPdisks
\* the controller the operations address
CtlId == <<"0">>

---------------------------------------------------------------------------
(* Parsed documents.  A response of the external tool is a tree with at most
   one container node (section) holding record entries, and the CustomStat
   children of an omconfig response. *)

Doc(section, entries, customStat) ==
    [section |-> section, entries |-> entries, CustomStat |-> customStat]
\* res.find(name) is not None
HasSection(doc, name) == doc.section = name

\* run(cmd, args): fails when the binaries are not executable, when the tool
\* reports insufficient privileges, when the output is not XML; otherwise
\* returns one of the documents the tool can answer with.
Run(docs) ==
    { Raise("OSError", "ToolUnavailable"),
      Raise("ControllerError", "PermissionDenied"),
      Raise("ParseError", "MalformedOutput") } \cup { Ok(d) : d \in docs }

\* status_mapping with a default (dict.get) in place of the KeyError
LdStatusMappingDefault(code) ==
    CASE code = "2" -> Ok("Online")
      [] code = "4" -> Ok("Failed")
      [] OTHER -> Ok("Online")
\* status_mapping of _parse_logical_drive: a dict lookup, KeyError when absent
LdStatusMapping(code) ==
    CASE code = "2" -> Ok("Online")
      [] code = "4" -> Ok("Failed")
      [] OTHER -> Raise("KeyError", "UnknownStatusCode")

\* raid_mapping of _parse_logical_drive
RaidMapping(code) ==
    CASE code = "2" -> Ok("RAID-0")
      [] code = "4" -> Ok("RAID-1")
      [] OTHER -> Raise("KeyError", "UnknownStatusCode")

\* state_mapping of _parse_physical_drive
PdStateMapping(code) ==
    CASE code = "1" -> Ok("Ready")
      [] code = "2" -> Ok("Failed")
      [] code = "4" -> Ok("Online")
      [] OTHER -> Raise("KeyError", "UnknownStatusCode")

\* status_mapping of _parse_physical_drive
PdStatusMapping(code) ==
    CASE code = "2" -> Ok("Ok")
      [] code = "3" -> Ok("Non-Critical")
      [] code = "4" -> Ok("Failed")
      [] OTHER -> Raise("KeyError", "UnknownStatusCode")

\* _parse_logical_drive(xml_input, logical_drive): the attributes assigned,
\* the status lookup before the layout lookup
ParseLogicalDrive(e) ==
    LET s == LdStatusMapping(e.ObjStatus)
        t == RaidMapping(e.Layout)
    IN  IF IsRaise(s) THEN s
        ELSE IF IsRaise(t) THEN t
        ELSE Ok([id |-> e.LogicalDriveNum, device_path |-> e.DeviceName,
                 status |-> s.val, type |-> t.val])

\* '{0}:0:{1}'.format(channel, target)
PdiskIdFormat(channel, target) == channel \o <<":", "0", ":">> \o target

\* _parse_physical_drive(xml_input, physical_drive); firmware, size, model and
\* serial are copied from the entry and are left out of the record
ParsePhysicalDrive(e) ==
    LET s == PdStateMapping(e.ObjState)
        t == PdStatusMapping(e.ObjStatus)
    IN  IF IsRaise(s) THEN s
        ELSE IF IsRaise(t) THEN t
        ELSE Ok([id |-> PdiskIdFormat(e.Channel, e.TargetID),
                 state |-> s.val, status |-> t.val])

\* 'c{0}u{1}'.format(controller_id, logical_drive_id)
FormatName(controller_id, logical_drive_id) ==
    <<"c">> \o controller_id \o <<"u">> \o logical_drive_id

\* str.strip(ch): the leading and the trailing occurrences of ch removed
RECURSIVE LStrip(_, _)
LStrip(s, ch) == IF s # <<>> /\ Head(s) = ch THEN LStrip(Tail(s), ch) ELSE s
RECURSIVE RStrip(_, _)
RStrip(s, ch) ==
    IF s # <<>> /\ s[Len(s)] = ch THEN RStrip(SubSeq(s, 1, Len(s) - 1), ch) ELSE s
Strip(s, ch) == RStrip(LStrip(s, ch), ch)

\* str.split(sep): the parts between the occurrences of sep
RECURSIVE Split(_, _)
Split(s, sep) ==
    IF s = <<>> THEN << <<>> >>
    ELSE LET rest == Split(Tail(s), sep)
         IN  IF Head(s) = sep
             THEN << <<>> >> \o rest
             ELSE << <<Head(s)>> \o rest[1] >> \o Tail(rest)

\* the unpacking of line 74 with its two targets exchanged
ParseNameSwapped(name) ==
    LET parts == Split(Strip(name, "c"), "u")
    IN  IF Len(parts) = 2 THEN Ok(<<parts[2], parts[1]>>)
        ELSE Raise("ValueError", "BadName")
\* get_logical_drive, line 74:
\* controller_id, logical_drive_id = name.strip('c').split('u')
\* (unpacking anything but two parts raises ValueError)
ParseName(name) ==
    LET parts == Split(Strip(name, "c"), "u")
    IN  IF Len(parts) = 2 THEN Ok(<<parts[1], parts[2]>>)
        ELSE Raise("ValueError", "BadName")

---------------------------------------------------------------------------
(* Read paths of the backend, as functions of the documents run() returned *)

MissingSection == Raise("ControllerError", "MissingSection")

\* the loop of Controller.get_logical_drives: the first failing entry raises
RECURSIVE ParseLogicalDrives(_, _)
ParseLogicalDrives(controller_id, entries) ==
    IF entries = <<>> THEN Ok(<<>>)
    ELSE LET h == ParseLogicalDrive(Head(entries))
             t == ParseLogicalDrives(controller_id, Tail(entries))
         IN  IF IsRaise(h) THEN h
             ELSE IF IsRaise(t) THEN t
             ELSE Ok(<<[id |-> h.val.id, device_path |-> h.val.device_path,
                        status |-> h.val.status, type |-> h.val.type,
                        controller_id |-> controller_id,
                        name |-> FormatName(controller_id, h.val.id)]>> \o t.val)

\* the loops of Controller.get_physical_drives and LogicalDrive.get_physical_drives
RECURSIVE ParsePhysicalDrives(_)
ParsePhysicalDrives(entries) ==
    IF entries = <<>> THEN Ok(<<>>)
    ELSE LET h == ParsePhysicalDrive(Head(entries))
             t == ParsePhysicalDrives(Tail(entries))
         IN  IF IsRaise(h) THEN h
             ELSE IF IsRaise(t) THEN t
             ELSE Ok(<<h.val>> \o t.val)

\* Controller.__init__(controller_id), given the response of
\* `omreport storage controller controller=<id>`
ControllerInit(controller_id, doc) ==
    IF ~HasSection(doc, "Controllers") THEN MissingSection
    ELSE IF doc.entries = <<>> THEN Raise("IndexError", "EmptySection")
    ELSE Ok([controller_id |-> controller_id, controller_info |-> doc.entries[1]])

\* Controller.get_info()
ControllerGetInfo(c) ==
    Ok([firmware |-> c.controller_info.FirmwareVer, id |-> c.controller_id,
        model |-> c.controller_info.Name, pci_id |-> c.controller_info.PciID,
        slot |-> c.controller_info.PCISlot])

\* get_controllers(), given the response of `omreport storage controller` and,
\* for the i-th controller listed, the outcome rs[i] of the run() its
\* construction makes
RECURSIVE BuildControllers(_, _)
BuildControllers(entries, rs) ==
    IF entries = <<>> THEN Ok(<<>>)
    ELSE LET h == IF IsRaise(Head(rs)) THEN Head(rs)
                  ELSE ControllerInit(Head(entries).ControllerNum, Head(rs).val)
         IN  IF IsRaise(h) THEN h
             ELSE LET t == BuildControllers(Tail(entries), Tail(rs))
                  IN  IF IsRaise(t) THEN t ELSE Ok(<<h.val>> \o t.val)
GetControllers(doc, rs) ==
    IF ~HasSection(doc, "Controllers") THEN MissingSection
    ELSE BuildControllers(doc.entries, rs)

\* get_logical_drives() without the test of lines 194-197
GetLogicalDrivesNoCheck(controller_id, doc) ==
    IF ~HasSection(doc, "VirtualDisks") THEN Ok(<<>>)
    ELSE ParseLogicalDrives(controller_id, doc.entries)
\* Controller.get_logical_drives(), given the response of
\* `omreport storage vdisk controller=<id>`
GetLogicalDrives(controller_id, doc) ==
    IF ~HasSection(doc, "VirtualDisks") THEN MissingSection
    ELSE ParseLogicalDrives(controller_id, doc.entries)

\* Controller.get_physical_drives(), given the response of
\* `omreport storage pdisk controller=<id>`
ControllerGetPhysicalDrives(controller_id, doc) ==
    IF ~HasSection(doc, "ArrayDisks") THEN MissingSection
    ELSE LET r == ParsePhysicalDrives(doc.entries)
         IN  IF IsRaise(r) THEN r
             ELSE Ok([i \in 1..Len(r.val) |->
                        [id |-> r.val[i].id, state |-> r.val[i].state,
                         status |-> r.val[i].status,
                         controller_id |-> controller_id]])

\* LogicalDrive.__init__(controller_id, vdisk_id), given the response of
\* `omreport storage vdisk controller=<id> vdisk=<id>`: the first entry is
\* parsed, then controller_id, id and name are set from the arguments
LogicalDriveInit(controller_id, vdisk_id, doc) ==
    IF ~HasSection(doc, "VirtualDisks") THEN MissingSection
    ELSE IF doc.entries = <<>> THEN Raise("IndexError", "EmptySection")
    ELSE LET r == ParseLogicalDrive(doc.entries[1])
         IN  IF IsRaise(r) THEN r
             ELSE Ok([id |-> vdisk_id, device_path |-> r.val.device_path,
                      status |-> r.val.status, type |-> r.val.type,
                      controller_id |-> controller_id,
                      name |-> FormatName(controller_id, vdisk_id)])

\* LogicalDrive.get_physical_drives(), given the response of
\* `omreport storage pdisk controller=<id> vdisk=<id>`
LogicalDriveGetPhysicalDrives(doc) ==
    IF ~HasSection(doc, "ArrayDisks") THEN MissingSection
    ELSE ParsePhysicalDrives(doc.entries)

\* LogicalDrive.get_info(): the dict built from the instance and from
\* get_physical_drives().  (The _check_initialised guard passes: every
\* instance of the modelled flows has its id set.)
LogicalDriveGetInfo(self, doc) ==
    LET r == LogicalDriveGetPhysicalDrives(doc)
    IN  IF IsRaise(r) THEN r
        ELSE Ok([controller_id |-> self.controller_id,
                 device_path |-> self.device_path,
                 id |-> self.id,
                 name |-> self.name,
                 physical_drives |-> [i \in 1..Len(r.val) |-> r.val[i].id],
                 status |-> self.status,
                 type |-> self.type])

\* PhysicalDrive.__init__(controller_id, pdisk_id), given the response of
\* `omreport storage pdisk controller=<id> pdisk=<id>`
PhysicalDriveInit(controller_id, pdisk_id, doc) ==
    IF ~HasSection(doc, "ArrayDisks") THEN MissingSection
    ELSE IF doc.entries = <<>> THEN Raise("IndexError", "EmptySection")
    ELSE LET r == ParsePhysicalDrive(doc.entries[1])
         IN  IF IsRaise(r) THEN r
             ELSE Ok([id |-> pdisk_id, state |-> r.val.state,
                      status |-> r.val.status, controller_id |-> controller_id])

\* get_logical_drive(name), given the response to the lookup it makes
GetLogicalDrive(name, doc) ==
    LET p == ParseName(name)
    IN  IF IsRaise(p) THEN p ELSE LogicalDriveInit(p.val[1], p.val[2], doc)

\* PhysicalDrive.get_info()
PhysicalDriveGetInfo(self) ==
    Ok([controller_id |-> self.controller_id, id |-> self.id,
        state |-> self.state, status |-> self.status])

\* an exit check that never raises
CheckExitCodeIgnored(doc, error) == None
\* an exit check that passes when any CustomStat child has the text '0'
CheckExitCodeAnyZero(doc, error) ==
    IF \E i \in 1..Len(doc.CustomStat) : doc.CustomStat[i] = "0"
    THEN None
    ELSE Raise("ControllerError", error)
\* _check_exit_code(result, error): passes when the response has a CustomStat
\* child and the first one's text is '0', raises ControllerError(error) otherwise
CheckExitCode(doc, error) ==
    IF Len(doc.CustomStat) = 0 \/ doc.CustomStat[1] # "0"
    THEN Raise("ControllerError", error)
    ELSE None

---------------------------------------------------------------------------
(* The external tool (omreport / omconfig) and the controller behind it.
   The tool is opaque: what it answers is a choice among the documents
   below.  Every logical drive of the modelled controller is a RAID-0
   drive on one physical drive, as the creation command makes them.  The
   controller's state is which slots hold a drive; the status the tool
   reports for a drive (online, degraded, failed) and the physical drive
   it reports behind it may differ from one query to the next. *)

NoDisk == [present |-> FALSE]
Disk == [present |-> TRUE]
\* ObjStatus texts the tool reports for a logical drive
VdiskStatusCodes == {"2", "3", "4"}
Present == { n \in VdiskNums : vdisks[n].present }
Free == VdiskNums \ Present

\* the slot an identifier text names (0: none)
IdNum(s) == IF \E n \in VdiskNums : IdStr(n) = s
            THEN CHOOSE n \in VdiskNums : IdStr(n) = s
            ELSE 0
PdSpec(k) == PdiskIdFormat(<<"0">>, IdStr(k))
PdNum(s) == IF \E k \in PdiskNums : PdSpec(k) = s
            THEN CHOOSE k \in PdiskNums : PdSpec(k) = s
            ELSE 0

VdiskEntry(n, code) ==
    [LogicalDriveNum |-> IdStr(n), DeviceName |-> <<"/dev/sd">> \o IdStr(n),
     ObjStatus |-> code, Layout |-> "2"]
PdEntry(k, state, status) ==
    [Channel |-> <<"0">>, TargetID |-> IdStr(k), ObjState |-> state, ObjStatus |-> status]
\* a physical drive that is online and ok
PdiskEntry(k) == PdEntry(k, "4", "2")

RECURSIVE VdiskEntries(_, _)
VdiskEntries(S, codes) ==
    IF S = {} THEN <<>>
    ELSE LET n == CHOOSE x \in S : \A y \in S : x <= y
         IN  <<VdiskEntry(n, codes[n])>> \o VdiskEntries(S \ {n}, codes)

NoSectionDoc == Doc("none", <<>>, <<>>)
CtlEntry(n) ==
    [ControllerNum |-> IdStr(n), FirmwareVer |-> "21.3.0", Name |-> "PERC H710",
     PciID |-> "1000005b", PCISlot |-> "1"]
\* omreport storage controller controller=<id>
ControllerDocs ==
    { Doc("Controllers", <<CtlEntry(0)>>, <<>>), Doc("Controllers", <<>>, <<>>),
      NoSectionDoc }
\* omreport storage vdisk controller=<id>
ListVdisksDocs ==
    { Doc("VirtualDisks", VdiskEntries(Present, codes), <<>>) :
        codes \in [Present -> VdiskStatusCodes] } \cup { NoSectionDoc }
\* omreport storage vdisk controller=<id> vdisk=<id>
VdiskDocs(id) ==
    IF IdNum(id) \in Present
    THEN { Doc("VirtualDisks", <<VdiskEntry(IdNum(id), c)>>, <<>>) :
             c \in VdiskStatusCodes } \cup { NoSectionDoc }
    ELSE { Doc("VirtualDisks", <<>>, <<>>), NoSectionDoc }
\* omreport storage pdisk controller=<id> vdisk=<id>
PdisksOfVdiskDocs(id) ==
    IF IdNum(id) \in Present
    THEN { Doc("ArrayDisks", <<PdiskEntry(k)>>, <<>>) : k \in PdiskNums }
         \cup { NoSectionDoc }
    ELSE { Doc("ArrayDisks", <<>>, <<>>), NoSectionDoc }
\* omreport storage pdisk controller=<id> pdisk=<id>
PdiskDocs(id) ==
    IF PdNum(id) \in PdiskNums
    THEN { Doc("ArrayDisks", <<PdiskEntry(PdNum(id))>>, <<>>), NoSectionDoc }
    ELSE { Doc("ArrayDisks", <<>>, <<>>), NoSectionDoc }
\* the CustomStat children an omconfig response can carry
CustomStats == { <<>>, <<"0">>, <<"1">>, <<"">>, <<"1", "0">> }
\* omconfig ...
ConfigDocs == { Doc("none", <<>>, st) : st \in CustomStats }

---------------------------------------------------------------------------
(* Backend operations, one action per external command they run *)

Idle == <<>>

\* an operation that runs its mutating command again when the command failed
FinishRetrying(r) ==
    /\ pc' = IF IsRaise(r) /\ pc \in {"c_cmd", "d_cmd"} THEN pc ELSE "done"
    /\ result' = IF IsRaise(r) /\ pc \in {"c_cmd", "d_cmd"} THEN result ELSE r
\* the operation ends with outcome r
Finish(r) ==
    /\ pc' = "done"
    /\ result' = r

\* [x.id for x in iter(self.get_logical_drives())]
Ids(drives) == [i \in 1..Len(drives) |-> drives[i].id]
\* set(ids)
SetOf(ids) == { ids[i] : i \in 1..Len(ids) }

\* the second snapshot taken for the new identifiers, the first one forgotten
NewVdiskIdsNoDifference(after_ids, before) == SetOf(after_ids)
\* set(after_ids).difference(set(before_ids))
NewVdiskIds(after_ids, before) == SetOf(after_ids) \ SetOf(before)

\* what create_logical_drive raises when len(new_vdisk_ids) != 1: the name
\* `base` of `raise base.ControllerError(...)` is bound nowhere in the module,
\* so evaluating it raises NameError
AmbiguousError == Raise("NameError", "CreationAmbiguous")

\* logical_drive_create, line 117: ctl = controller.Controller(controller_id),
\* the instance the facade calls create_logical_drive() on (`controller` is
\* bound: with it unbound the fallback answers and nothing is run)
FacadeCreate ==
    /\ pc = "idle"
    /\ via' = "facade"
    /\ op' = "create"
    /\ cmds' = <<"omreport controller">>
    /\ ownNum' = 0
    /\ extCreated' = FALSE
    /\ \E r \in Run(ControllerDocs) :
        LET c == IF IsRaise(r) THEN r ELSE ControllerInit(CtlId, r.val)
        IN  IF IsRaise(c) THEN Finish(c) ELSE pc' = "c_before" /\ UNCHANGED result
    /\ UNCHANGED <<vdisks, arg, before_ids, new_vdisk_ids, held, info, stat, retOwn>>

\* create_logical_drive, line 233: the first snapshot
CreateSnapshotBefore ==
    /\ pc \in {"idle", "c_before"}
    /\ via' = IF pc = "idle" THEN "backend" ELSE via
    /\ \E k \in PdiskNums, r \in Run(ListVdisksDocs) :
        LET l == IF IsRaise(r) THEN r ELSE GetLogicalDrives(CtlId, r.val)
        IN  /\ op' = "create"
            /\ arg' = PdSpec(k)
            /\ cmds' = Append(cmds, "omreport vdisk list")
            /\ ownNum' = 0
            /\ extCreated' = FALSE
            /\ IF IsRaise(l)
               THEN Finish(l) /\ UNCHANGED before_ids
               ELSE /\ pc' = "c_cmd"
                    /\ before_ids' = Ids(l.val)
                    /\ UNCHANGED result
    /\ UNCHANGED <<vdisks, new_vdisk_ids, held, info, stat, retOwn>>

\* create_logical_drive, lines 238-244: the creation command and the check of
\* its exit code.  The command may create a drive on a free slot or none.
CreateCommand ==
    /\ pc = "c_cmd"
    /\ cmds' = Append(cmds, "omconfig createvdisk")
    /\ \E r \in Run(ConfigDocs), n \in Free \cup {0} :
        /\ IF n = 0 \/ IsRaise(r)
           THEN UNCHANGED <<vdisks, ownNum>>
           ELSE /\ vdisks' = [vdisks EXCEPT ![n] = Disk]
                /\ ownNum' = n
        /\ IF IsRaise(r)
           THEN Finish(r) /\ UNCHANGED stat
           ELSE /\ stat' = Ok(r.val.CustomStat)
                /\ LET c == CheckExitCode(r.val, "CreationFailed")
                   IN  IF IsRaise(c)
                       THEN Finish(c)
                       ELSE pc' = "c_after" /\ UNCHANGED result
    /\ UNCHANGED <<extCreated, op, arg, before_ids, new_vdisk_ids, held, info, retOwn, via>>

\* create_logical_drive, lines 246-253: the second snapshot and the diff
CreateSnapshotAfter ==
    /\ pc = "c_after"
    /\ cmds' = Append(cmds, "omreport vdisk list")
    /\ \E r \in Run(ListVdisksDocs) :
        LET l == IF IsRaise(r) THEN r ELSE GetLogicalDrives(CtlId, r.val)
        IN  IF IsRaise(l)
            THEN Finish(l) /\ UNCHANGED new_vdisk_ids
            ELSE LET new == NewVdiskIds(Ids(l.val), before_ids)
                 IN  /\ new_vdisk_ids' = Ok(new)
                     /\ IF Cardinality(new) # 1
                        THEN Finish(AmbiguousError)
                        ELSE pc' = "c_fetch" /\ UNCHANGED result
    /\ UNCHANGED <<vdisks, ownNum, extCreated, op, arg, before_ids, held, info,
                   stat, retOwn, via>>

\* create_logical_drive, line 254: LogicalDrive(self.controller_id, new_vdisk_id)
CreateFetch ==
    /\ pc = "c_fetch"
    /\ cmds' = Append(cmds, "omreport vdisk")
    /\ LET new_vdisk_id == CHOOSE x \in new_vdisk_ids.val : TRUE
       IN  \E r \in Run(VdiskDocs(new_vdisk_id)) :
            LET l == IF IsRaise(r) THEN r
                     ELSE LogicalDriveInit(CtlId, new_vdisk_id, r.val)
            IN  IF IsRaise(l)
                THEN Finish(l) /\ UNCHANGED <<held, retOwn>>
                ELSE /\ held' = l.val
                     /\ retOwn' = (IdNum(new_vdisk_id) = ownNum)
                     /\ pc' = "c_info"
                     /\ UNCHANGED result
    /\ UNCHANGED <<vdisks, ownNum, extCreated, op, arg, before_ids, new_vdisk_ids,
                   info, stat, via>>

\* create_logical_drive, line 254: .get_info()
CreateGetInfo ==
    /\ pc = "c_info"
    /\ cmds' = Append(cmds, "omreport pdisk vdisk")
    /\ \E r \in Run(PdisksOfVdiskDocs(held.id)) :
        Finish(IF IsRaise(r) THEN r ELSE LogicalDriveGetInfo(held, r.val))
    /\ UNCHANGED <<vdisks, ownNum, extCreated, op, arg, before_ids, new_vdisk_ids,
                   held, info, stat, retOwn, via>>

\* LogicalDrive(controller_id, logical_drive_id), the instance delete() is
\* called on, by the caller of the backend or by logical_drive_delete (line 99)
DeleteLookup ==
    /\ pc = "idle"
    /\ via' \in {"backend", "facade"}
    /\ \E n \in VdiskNums :
        /\ arg' = IdStr(n)
        /\ \E r \in Run(VdiskDocs(IdStr(n))) :
            LET l == IF IsRaise(r) THEN r ELSE LogicalDriveInit(CtlId, IdStr(n), r.val)
            IN  IF IsRaise(l)
                THEN Finish(l) /\ UNCHANGED held
                ELSE /\ held' = l.val
                     /\ pc' = "d_info"
                     /\ UNCHANGED result
    /\ op' = "delete"
    /\ cmds' = <<"omreport vdisk">>
    /\ extCreated' = FALSE
    /\ UNCHANGED <<vdisks, ownNum, before_ids, new_vdisk_ids, info, stat, retOwn>>

\* a delete that goes on to its command when get_info() has failed
DeleteGetInfoUnguarded ==
    /\ pc = "d_info"
    /\ cmds' = Append(cmds, "omreport pdisk vdisk")
    /\ \E r \in Run(PdisksOfVdiskDocs(held.id)) :
        LET i == IF IsRaise(r) THEN r ELSE LogicalDriveGetInfo(held, r.val)
        IN  /\ info' = IF IsRaise(i) THEN info ELSE i.val
            /\ pc' = "d_cmd"
            /\ UNCHANGED result
    /\ UNCHANGED <<vdisks, ownNum, extCreated, op, arg, before_ids, new_vdisk_ids,
                   held, stat, retOwn, via>>
\* LogicalDrive.delete, line 322: info = self.get_info()
DeleteGetInfo ==
    /\ pc = "d_info"
    /\ cmds' = Append(cmds, "omreport pdisk vdisk")
    /\ \E r \in Run(PdisksOfVdiskDocs(held.id)) :
        LET i == IF IsRaise(r) THEN r ELSE LogicalDriveGetInfo(held, r.val)
        IN  IF IsRaise(i)
            THEN Finish(i) /\ UNCHANGED info
            ELSE /\ info' = i.val
                 /\ pc' = "d_cmd"
                 /\ UNCHANGED result
    /\ UNCHANGED <<vdisks, ownNum, extCreated, op, arg, before_ids, new_vdisk_ids,
                   held, stat, retOwn, via>>

\* a payload whose device path and physical drives are read after the removal
DeletedPayloadRefetched(i) ==
    [controller_id |-> i.controller_id, device_path |-> <<>>, id |-> i.id,
     name |-> i.name, physical_drives |-> <<>>, status |-> "Successfully removed",
     type |-> i.type]
\* LogicalDrive.delete, lines 329-330: the dict returned
DeletedPayload(i) == [i EXCEPT !.status = "Successfully removed"]

\* LogicalDrive.delete, lines 323-330: the delete command, the check of its
\* exit code and the payload.  The command may remove the drive or not.
DeleteCommand ==
    /\ pc = "d_cmd"
    /\ cmds' = Append(cmds, "omconfig deletevdisk")
    /\ \E r \in Run(ConfigDocs), removed \in BOOLEAN :
        /\ IF removed /\ IsOk(r) /\ IdNum(held.id) \in Present
           THEN /\ vdisks' = [vdisks EXCEPT ![IdNum(held.id)] = NoDisk]
                /\ ownNum' = IF ownNum = IdNum(held.id) THEN 0 ELSE ownNum
           ELSE UNCHANGED <<vdisks, ownNum>>
        /\ IF IsRaise(r)
           THEN Finish(r) /\ UNCHANGED stat
           ELSE /\ stat' = Ok(r.val.CustomStat)
                /\ LET c == CheckExitCode(r.val, "DeletionFailed")
                   IN  Finish(IF IsRaise(c) THEN c ELSE Ok(DeletedPayload(info)))
    /\ UNCHANGED <<extCreated, op, arg, before_ids, new_vdisk_ids, held, info, retOwn, via>>

\* PhysicalDrive(controller_id, pdisk_id), the instance blink_led() or
\* unblink_led() is called on
LedLookup ==
    /\ pc = "idle"
    /\ via' = "backend"
    /\ \E k \in PdiskNums, which \in {"blink", "unblink"} :
        /\ op' = which
        /\ arg' = PdSpec(k)
        /\ \E r \in Run(PdiskDocs(PdSpec(k))) :
            LET l == IF IsRaise(r) THEN r ELSE PhysicalDriveInit(CtlId, PdSpec(k), r.val)
            IN  IF IsRaise(l)
                THEN Finish(l) /\ UNCHANGED held
                ELSE /\ held' = l.val
                     /\ pc' = "l_cmd"
                     /\ UNCHANGED result
    /\ cmds' = <<"omreport pdisk">>
    /\ extCreated' = FALSE
    /\ UNCHANGED <<vdisks, ownNum, before_ids, new_vdisk_ids, info, stat, retOwn>>

\* PhysicalDrive.blink_led / unblink_led: the command, the check of its exit
\* code, and True
LedCommand ==
    /\ pc = "l_cmd"
    /\ cmds' = Append(cmds, "omconfig " \o op)
    /\ \E r \in Run(ConfigDocs) :
        IF IsRaise(r)
        THEN Finish(r) /\ UNCHANGED stat
        ELSE /\ stat' = Ok(r.val.CustomStat)
             /\ LET c == CheckExitCode(r.val, "LedOperationFailed")
                IN  Finish(IF IsRaise(c) THEN c ELSE Ok(TRUE))
    /\ UNCHANGED <<vdisks, ownNum, extCreated, op, arg, before_ids, new_vdisk_ids,
                   held, info, retOwn, via>>

\* the caller takes the outcome; the next operation starts afresh
Return ==
    /\ pc = "done"
    /\ pc' = "idle"
    /\ op' = "none"
    /\ arg' = Idle
    /\ before_ids' = Idle
    /\ new_vdisk_ids' = None
    /\ held' = None
    /\ info' = None
    /\ cmds' = <<>>
    /\ stat' = None
    /\ retOwn' = FALSE
    /\ via' = "none"
    /\ result' = None
    /\ ownNum' = 0
    /\ extCreated' = FALSE
    /\ UNCHANGED vdisks

(* Other parties managing the same controller *)

ExtCreate ==
    /\ \E n \in Free :
        vdisks' = [vdisks EXCEPT ![n] = Disk]
    /\ extCreated' = (extCreated \/ (op = "create" /\ pc # "done"))
    /\ UNCHANGED <<ownNum, pc, op, arg, before_ids, new_vdisk_ids, held, info,
                   cmds, stat, retOwn, via, result>>

ExtDelete ==
    /\ \E n \in Present :
        /\ vdisks' = [vdisks EXCEPT ![n] = NoDisk]
        /\ ownNum' = IF ownNum = n THEN 0 ELSE ownNum
    /\ UNCHANGED <<extCreated, pc, op, arg, before_ids, new_vdisk_ids, held, info,
                   cmds, stat, retOwn, via, result>>

---------------------------------------------------------------------------
FacadeIdle ==
    /\ f_pci = <<>>
    /\ f_plugins = {}
    /\ f_op = "none"
    /\ f_model = "unbound"
    /\ f_state = "boot"
    /\ f_controller = "unbound"
    /\ f_result = None
PureIdle ==
    /\ p_in = None
    /\ p_out = None
WorkflowIdle ==
    /\ vdisks = [n \in VdiskNums |-> NoDisk]
    /\ ownNum = 0
    /\ extCreated = FALSE
    /\ pc = "idle"
    /\ op = "none"
    /\ arg = Idle
    /\ before_ids = Idle
    /\ new_vdisk_ids = None
    /\ held = None
    /\ info = None
    /\ cmds = <<>>
    /\ stat = None
    /\ retOwn = FALSE
    /\ via = "none"
    /\ result = None

Init == WorkflowIdle /\ FacadeIdle /\ PureIdle

Next ==
    \/ FacadeCreate /\ UNCHANGED <<fvars, pvars>>
    \/ CreateSnapshotBefore /\ UNCHANGED <<fvars, pvars>>
    \/ CreateCommand /\ UNCHANGED <<fvars, pvars>>
    \/ CreateSnapshotAfter /\ UNCHANGED <<fvars, pvars>>
    \/ CreateFetch /\ UNCHANGED <<fvars, pvars>>
    \/ CreateGetInfo /\ UNCHANGED <<fvars, pvars>>
    \/ DeleteLookup /\ UNCHANGED <<fvars, pvars>>
    \/ DeleteGetInfo /\ UNCHANGED <<fvars, pvars>>
    \/ DeleteCommand /\ UNCHANGED <<fvars, pvars>>
    \/ LedLookup /\ UNCHANGED <<fvars, pvars>>
    \/ LedCommand /\ UNCHANGED <<fvars, pvars>>
    \/ Return /\ UNCHANGED <<fvars, pvars>>
    \/ ExtCreate /\ UNCHANGED <<fvars, pvars>>
    \/ ExtDelete /\ UNCHANGED <<fvars, pvars>>

Spec == Init /\ [][Next]_vars

---------------------------------------------------------------------------
(* Properties of the create, delete and LED operations *)

\* the exit indicator of the omconfig response read signals success
ExitSuccess == IsOk(stat) /\ Len(stat.val) > 0 /\ stat.val[1] = "0"
\* the second snapshot was taken and the difference computed
DiffComputed == op = "create" /\ IsOk(new_vdisk_ids)
CreationAmbiguous == Raise("ControllerError", "CreationAmbiguous")

\* C1: in create_logical_drive, after a creation command whose exit indicator
\* is success, when after - before holds exactly one identifier the operation
\* goes on to fetch the drive with that identifier (what it returns is that
\* drive's details), and when it holds none or several the operation fails
\* with CreationAmbiguous (a ControllerError) and returns no drive.
C1_DiffDecidesOutcome ==
    DiffComputed =>
        IF Cardinality(new_vdisk_ids.val) = 1
        THEN /\ (pc = "done" /\ IsOk(result)) => result.val.id \in new_vdisk_ids.val
             /\ (pc = "done" /\ IsRaise(result)) => result.err # "CreationAmbiguous"
        ELSE pc = "done" /\ result = CreationAmbiguous

\* C2 (as claimed): a create that returns successfully returns the drive its
\* own creation command created, whatever other parties did meanwhile.
C2_NeverReturnsForeignDrive ==
    (op = "create" /\ pc = "done" /\ IsOk(result)) => retOwn

\* C2 (amended): when no other party created a drive between the first
\* snapshot and the return (deletions by other parties allowed), a create
\* that returns successfully returns the drive its own command created.
C2_OwnDriveUnlessExternalCreation ==
    (op = "create" /\ pc = "done" /\ IsOk(result) /\ ~extCreated) => retOwn

\* a create returned its own drive although another party deleted a drive
\* of the first snapshot meanwhile
C2_Witness ==
    /\ op = "create" /\ pc = "done" /\ IsOk(result) /\ ~extCreated /\ retOwn
    /\ \E i \in 1..Len(before_ids) : IdNum(before_ids[i]) \notin Present

\* C3: a delete that returns a payload read a success exit indicator, and the
\* payload has the fields captured before the delete command was issued, but
\* for status, which is the removed marker; a delete command whose exit
\* indicator is not success ends in DeletionFailed, with no payload.
C3_DeletePayload ==
    (op = "delete" /\ pc = "done") =>
        /\ IsOk(result) =>
            /\ ExitSuccess
            /\ result.val.status = "Successfully removed"
            /\ result.val.controller_id = info.controller_id
            /\ result.val.device_path = info.device_path
            /\ result.val.id = info.id
            /\ result.val.name = info.name
            /\ result.val.physical_drives = info.physical_drives
            /\ result.val.type = info.type
            /\ info.id = arg
            /\ info.name = FormatName(CtlId, arg)
            /\ info.device_path = held.device_path
            /\ cmds = <<"omreport vdisk", "omreport pdisk vdisk", "omconfig deletevdisk">>
        /\ (IsOk(stat) /\ ~ExitSuccess) =>
            result = Raise("ControllerError", "DeletionFailed")

\* a delete returned the payload of a drive captured as failed, on one
\* physical drive
C3_Witness ==
    /\ op = "delete" /\ pc = "done" /\ IsOk(result)
    /\ info.status = "Failed"
    /\ Len(result.val.physical_drives) = 1
    /\ result.val.device_path # <<>>

\* the commands run before create_logical_drive is entered: through the
\* facade, the one of Controller(controller_id)
EntryCommands == IF via = "facade" THEN <<"omreport controller">> ELSE <<>>

\* C9: in create_logical_drive, once the creation command's exit indicator is
\* read and is not success, the operation has ended in CreationFailed, and the
\* creation command is the last command it ran: no second snapshot, no diff,
\* no fetch.
C9_FailedExitStopsCreate ==
    (op = "create" /\ IsOk(stat) /\ ~ExitSuccess) =>
        /\ pc = "done"
        /\ result = Raise("ControllerError", "CreationFailed")
        /\ cmds = EntryCommands \o <<"omreport vdisk list", "omconfig createvdisk">>
        /\ new_vdisk_ids = None
        /\ held = None

\* a creation command answered with a CustomStat other than "0" after a
\* first snapshot that listed a drive
C9_Witness ==
    /\ op = "create" /\ pc = "done"
    /\ IsOk(stat) /\ stat.val = <<"1">>
    /\ Len(before_ids) > 0
    /\ result = Raise("ControllerError", "CreationFailed")

\* C10: once the response of a creation, deletion or LED command is read, the
\* operation passes the exit check exactly when the response's CustomStat
\* node (the first such child, the one find() returns) has the text "0";
\* otherwise, the node missing included, it has failed with CreationFailed,
\* DeletionFailed or LedOperationFailed; an LED operation returns True exactly
\* in the success case.
C10_ExitIndicator ==
    IsOk(stat) =>
        /\ op = "create" =>
            IF ExitSuccess
            THEN ~(IsRaise(result) /\ result.err = "CreationFailed")
            ELSE pc = "done" /\ result = Raise("ControllerError", "CreationFailed")
        /\ op = "delete" =>
            IF ExitSuccess
            THEN pc = "done" /\ IsOk(result)
            ELSE pc = "done" /\ result = Raise("ControllerError", "DeletionFailed")
        /\ op \in {"blink", "unblink"} =>
            IF ExitSuccess
            THEN pc = "done" /\ result = Ok(TRUE)
            ELSE pc = "done" /\ result = Raise("ControllerError", "LedOperationFailed")

\* an LED command whose response carries no CustomStat node has failed
C10_Witness ==
    /\ op = "unblink" /\ pc = "done"
    /\ IsOk(stat) /\ stat.val = <<>>
    /\ result = Raise("ControllerError", "LedOperationFailed")

---------------------------------------------------------------------------
(* The facade, utils/controller.py *)

\* `models`, lines 24-28
Models ==
    [x \in {"10000079", "1000005b", "13c11004"} |->
        IF x = "13c11004" THEN "lsi3ware" ELSE "perc8xx"]
\* identifiers a host can report: those of the table and another one
PciIds == DOMAIN Models \cup {"80861237"}

\* lines 32-36: the loop over the lines read, ended by the first identifier
\* the table has; `model` is assigned only then
RECURSIVE ScanModel(_)
ScanModel(ids) ==
    IF ids = <<>> THEN "unbound"
    ELSE IF Head(ids) \in DOMAIN Models THEN Models[Head(ids)]
    ELSE ScanModel(Tail(ids))

\* lines 38-42: the import of the backend.  Evaluating the unbound name
\* `model` raises NameError; a package that cannot be imported raises
\* ImportError, which is passed over; a package without the submodule makes
\* getattr raise AttributeError.
ImportBackend(model, plugins) ==
    IF model = "unbound" THEN Raise("NameError", "model")
    ELSE IF "package" \notin plugins THEN Raise("ImportError", "package")
    ELSE IF model \notin plugins THEN Raise("AttributeError", model)
    ELSE Ok(model)

\* _fallback(), lines 45-47
Fallback ==
    "The storage-controllers module needs to be installed or missing controller plugin"
\* a diagnostic string returned in place of a payload
Diag(text) == [kind |-> "diag", val |-> text]

\* @depends('controller', fallback_function=_fallback): with `controller`
\* unbound the fallback stands in for the function
Depends(controller, outcome) ==
    IF controller = "unbound" THEN Diag(Fallback) ELSE outcome

\* try: return <outcome> / except: return <text>
TryExcept(outcome, text) == IF IsRaise(outcome) THEN Diag(text) ELSE outcome

\* [l.get_info() for l in ...]: each get_info() makes one run, the i-th
\* drive's being rs[first + i - 1]
RECURSIVE LogicalDriveInfos(_, _, _)
LogicalDriveInfos(drives, rs, first) ==
    IF drives = <<>> THEN Ok(<<>>)
    ELSE LET r == rs[first]
             h == IF IsRaise(r) THEN r ELSE LogicalDriveGetInfo(Head(drives), r.val)
         IN  IF IsRaise(h) THEN h
             ELSE LET t == LogicalDriveInfos(Tail(drives), rs, first + 1)
                  IN  IF IsRaise(t) THEN t ELSE Ok(<<h.val>> \o t.val)

\* logical_drive(controller_id), lines 63-65, no try around the body
LogicalDriveList(controller_id, rs) ==
    LET c == IF IsRaise(rs[1]) THEN rs[1] ELSE ControllerInit(controller_id, rs[1].val)
        l == IF IsRaise(rs[2]) THEN rs[2] ELSE GetLogicalDrives(controller_id, rs[2].val)
    IN  IF IsRaise(c) THEN c
        ELSE IF IsRaise(l) THEN l
        ELSE LogicalDriveInfos(l.val, rs, 3)

\* logical_drive(controller_id, logical_drive_id), lines 66-68, no try
\* around the body
LogicalDriveOne(controller_id, logical_drive_id, rs) ==
    LET l == IF IsRaise(rs[1]) THEN rs[1]
             ELSE LogicalDriveInit(controller_id, logical_drive_id, rs[1].val)
    IN  IF IsRaise(l) THEN l
        ELSE IF IsRaise(rs[2]) THEN rs[2]
        ELSE LogicalDriveGetInfo(l.val, rs[2].val)

\* logical_drive_by_name(device_name), lines 81-84
LogicalDriveByName(device_name, rs) ==
    LET p == ParseName(device_name)
        l == IF IsRaise(p) THEN p
             ELSE IF IsRaise(rs[1]) THEN rs[1]
             ELSE GetLogicalDrive(device_name, rs[1].val)
        i == IF IsRaise(l) THEN l
             ELSE IF IsRaise(rs[2]) THEN rs[2]
             ELSE LogicalDriveGetInfo(l.val, rs[2].val)
    IN  TryExcept(i, "Logical drive not present")

\* logical_drive_delete(controller_id, logical_drive_id), lines 98-102, given
\* the outcome of LogicalDrive(...).delete()
LogicalDriveDelete(outcome) == TryExcept(outcome, "Failed to delete logical drive")

\* logical_drive_create(controller_id, physical_drive_id), lines 116-121,
\* given the response to Controller(controller_id) and the outcome of
\* create_logical_drive()
LogicalDriveCreate(controller_id, r, outcome) ==
    LET c == IF IsRaise(r) THEN r ELSE ControllerInit(controller_id, r.val)
    IN  TryExcept(IF IsRaise(c) THEN c ELSE outcome, "Failed to create a logical drive")

\* physical_drive(controller_id), lines 137-143
PhysicalDriveList(controller_id, rs) ==
    LET c == IF IsRaise(rs[1]) THEN rs[1] ELSE ControllerInit(controller_id, rs[1].val)
        l == IF IsRaise(c) THEN c
             ELSE IF IsRaise(rs[2]) THEN rs[2]
             ELSE ControllerGetPhysicalDrives(controller_id, rs[2].val)
        i == IF IsRaise(l) THEN l
             ELSE Ok([k \in 1..Len(l.val) |-> PhysicalDriveGetInfo(l.val[k]).val])
    IN  TryExcept(i, "Failed to get information for physical drives")

\* physical_drive(controller_id, physical_drive_id), lines 144-151
PhysicalDriveOne(controller_id, physical_drive_id, rs) ==
    LET d == IF IsRaise(rs[1]) THEN rs[1]
             ELSE PhysicalDriveInit(controller_id, physical_drive_id, rs[1].val)
    IN  TryExcept(IF IsRaise(d) THEN d ELSE PhysicalDriveGetInfo(d.val),
                  "Physical drive not present")

\* info(), lines 167-171
InfoAll(r, rs) ==
    LET l == IF IsRaise(r) THEN r ELSE GetControllers(r.val, rs)
        i == IF IsRaise(l) THEN l
             ELSE Ok([k \in 1..Len(l.val) |-> ControllerGetInfo(l.val[k]).val])
    IN  TryExcept(i, "Failed to get controllers information")

\* info(controller_id), lines 172-177
InfoOne(controller_id, r) ==
    LET c == IF IsRaise(r) THEN r ELSE ControllerInit(controller_id, r.val)
    IN  TryExcept(IF IsRaise(c) THEN c ELSE ControllerGetInfo(c.val),
                  "Failed to get information for controller")

(* Inputs of the facade calls: outcomes of the runs they make *)

SeqsUpTo(S, n) == UNION { [1..k -> S] : k \in 0..n }
CtlOutcomes ==
    { Raise("ControllerError", "PermissionDenied"), Ok(NoSectionDoc) } \cup
    { Ok(Doc("Controllers", es, <<>>)) : es \in SeqsUpTo({CtlEntry(0)}, MaxEntries) }
VdiskOutcomes ==
    { Raise("ParseError", "MalformedOutput"), Ok(NoSectionDoc) } \cup
    { Ok(Doc("VirtualDisks", es, <<>>)) :
        es \in SeqsUpTo({VdiskEntry(1, "4"), VdiskEntry(2, "3")}, MaxEntries) }
PdiskOutcomes ==
    { Raise("OSError", "ToolUnavailable"), Ok(NoSectionDoc) } \cup
    { Ok(Doc("ArrayDisks", es, <<>>)) :
        es \in SeqsUpTo({PdiskEntry(1), PdEntry(2, "3", "2")}, 1) }

\* the details of a drive, as create_logical_drive and delete return them
SamplePayload(status) ==
    [controller_id |-> CtlId, device_path |-> <<"/dev/sd", "1">>, id |-> <<"1">>,
     name |-> FormatName(CtlId, <<"1">>), physical_drives |-> <<PdSpec(1)>>,
     status |-> status, type |-> "RAID-0"]
\* what a read path of the backend can raise
ReadFailures ==
    { Raise("OSError", "ToolUnavailable"), Raise("ControllerError", "PermissionDenied"),
      Raise("ParseError", "MalformedOutput"), MissingSection,
      Raise("IndexError", "EmptySection"), Raise("KeyError", "UnknownStatusCode") }
\* the outcomes of Controller.create_logical_drive
CreateOutcomes ==
    ReadFailures \cup { Raise("ControllerError", "CreationFailed"), AmbiguousError,
                        Ok(SamplePayload("Online")) }
\* the outcomes of LogicalDrive.delete
DeleteOutcomes ==
    ReadFailures \cup { Raise("ControllerError", "DeletionFailed"),
                        Ok(SamplePayload("Successfully removed")) }

\* every failure of the backend's create and delete is among the outcomes
\* the facade calls are given
OutcomesCovered ==
    (pc = "done" /\ IsRaise(result)) =>
        /\ op = "create" => result \in CreateOutcomes
        /\ op = "delete" => result \in DeleteOutcomes

(* The facade's actions *)

\* the module is imported: lines 30-42
ModuleImport ==
    /\ f_state = "boot"
    /\ f_model' = ScanModel(f_pci)
    /\ LET i == ImportBackend(ScanModel(f_pci), f_plugins)
       IN  IF IsOk(i)
           THEN f_state' = "loaded" /\ f_controller' = i.val /\ UNCHANGED f_result
           ELSE IF i.exc = "ImportError"
           THEN f_state' = "loaded" /\ UNCHANGED <<f_controller, f_result>>
           ELSE f_state' = "crashed" /\ f_result' = i /\ UNCHANGED f_controller
    /\ UNCHANGED <<f_pci, f_plugins, f_op>>

Called(name, outcome) ==
    /\ f_state = "loaded"
    /\ f_op = "none"
    /\ f_op' = name
    /\ f_result' = Depends(f_controller, outcome)
    /\ UNCHANGED <<f_pci, f_plugins, f_model, f_state, f_controller>>

CallLogicalDrive ==
    \/ \E c \in CtlOutcomes, l \in VdiskOutcomes, ps \in [1..MaxEntries -> PdiskOutcomes] :
        Called("logical_drive", LogicalDriveList(CtlId, <<c, l>> \o ps))
    \/ \E rs \in VdiskOutcomes \X PdiskOutcomes :
        Called("logical_drive", LogicalDriveOne(CtlId, <<"1">>, rs))

CallLogicalDriveByName ==
    \E name \in {FormatName(CtlId, <<"1">>), <<"s", "d", "a">>},
       rs \in VdiskOutcomes \X PdiskOutcomes :
        Called("logical_drive_by_name", LogicalDriveByName(name, rs))

CallLogicalDriveDelete ==
    \E o \in DeleteOutcomes : Called("logical_drive_delete", LogicalDriveDelete(o))

CallLogicalDriveCreate ==
    \E r \in CtlOutcomes, o \in CreateOutcomes :
        Called("logical_drive_create", LogicalDriveCreate(CtlId, r, o))

CallPhysicalDrive ==
    \/ \E rs \in CtlOutcomes \X PdiskOutcomes :
        Called("physical_drive", PhysicalDriveList(CtlId, rs))
    \/ \E rs \in PdiskOutcomes \X PdiskOutcomes :
        Called("physical_drive", PhysicalDriveOne(CtlId, PdSpec(1), rs))

CallInfo ==
    \/ \E r \in CtlOutcomes, rs \in [1..MaxEntries -> CtlOutcomes] :
        Called("info", InfoAll(r, rs))
    \/ \E r \in CtlOutcomes : Called("info", InfoOne(CtlId, r))

\* the caller takes the outcome
FacadeReturn ==
    /\ f_state = "loaded"
    /\ f_op # "none"
    /\ f_op' = "none"
    /\ f_result' = None
    /\ UNCHANGED <<f_pci, f_plugins, f_model, f_state, f_controller>>

InitFacade ==
    /\ WorkflowIdle /\ PureIdle
    /\ f_pci \in SeqsUpTo(PciIds, MaxPci) \ {<<>>}
    /\ f_plugins \in { {}, {"package"}, {"package", "perc8xx"},
                       {"package", "perc8xx", "lsi3ware"} }
    /\ f_op = "none"
    /\ f_model = "unbound"
    /\ f_state = "boot"
    /\ f_controller = "unbound"
    /\ f_result = None

NextFacade ==
    \/ ModuleImport /\ UNCHANGED <<wvars, pvars>>
    \/ CallLogicalDrive /\ UNCHANGED <<wvars, pvars>>
    \/ CallLogicalDriveByName /\ UNCHANGED <<wvars, pvars>>
    \/ CallLogicalDriveDelete /\ UNCHANGED <<wvars, pvars>>
    \/ CallLogicalDriveCreate /\ UNCHANGED <<wvars, pvars>>
    \/ CallPhysicalDrive /\ UNCHANGED <<wvars, pvars>>
    \/ CallInfo /\ UNCHANGED <<wvars, pvars>>
    \/ FacadeReturn /\ UNCHANGED <<wvars, pvars>>

SpecFacade == InitFacade /\ [][NextFacade]_vars

\* C4: a facade call ends by returning a payload or a diagnostic; no
\* exception propagates to the caller.
C4_FacadeNeverThrows ==
    f_op # "none" => f_result.kind \in {"ok", "diag"}

\* the first identifier scanned that the table has (0: none)
FirstMatch ==
    IF \E i \in 1..Len(f_pci) : f_pci[i] \in DOMAIN Models
    THEN CHOOSE i \in 1..Len(f_pci) :
            /\ f_pci[i] \in DOMAIN Models
            /\ \A j \in 1..(i - 1) : f_pci[j] \notin DOMAIN Models
    ELSE 0

\* C5: once the module is imported: if a scanned identifier is in the table,
\* the backend of the first such identifier is the one selected (and bound,
\* when it can be imported); if none is, the module is loaded with no backend
\* (it has not crashed) and every facade read returns the unavailable
\* diagnostic.
C5_BackendSelection ==
    f_state # "boot" =>
        IF FirstMatch # 0
        THEN /\ f_model = Models[f_pci[FirstMatch]]
             /\ {"package", f_model} \subseteq f_plugins => f_controller = f_model
        ELSE /\ f_state = "loaded"
             /\ f_controller = "unbound"
             /\ f_op \in {"info", "logical_drive", "logical_drive_by_name", "physical_drive"}
                    => f_result = Diag(Fallback)

---------------------------------------------------------------------------
(* The pure functions of the backend, applied to inputs drawn at the start *)

Codes == { Digit(n) : n \in 0..MaxCode }
IdChars == {"2", "3", "5", "c", "u"}
IdTexts == UNION { [1..k -> IdChars] : k \in 1..MaxIdLen }
ReadPaths ==
    { "get_controllers", "Controller", "Controller.get_logical_drives",
      "Controller.get_physical_drives", "LogicalDrive",
      "LogicalDrive.get_physical_drives", "PhysicalDrive" }
ReadDocs ==
    {NoSectionDoc}
    \cup { Doc("Controllers", es, <<>>) : es \in SeqsUpTo({CtlEntry(0)}, MaxEntries) }
    \cup { Doc("VirtualDisks", es, <<>>) :
            es \in SeqsUpTo({VdiskEntry(1, "2"), VdiskEntry(2, "3")}, MaxEntries) }
    \cup { Doc("ArrayDisks", es, <<>>) :
            es \in SeqsUpTo({PdiskEntry(1), PdEntry(2, "3", "2")}, MaxEntries) }

Input(fn, a, b) == [fn |-> fn, a |-> a, b |-> b]
PureInputs ==
    { Input("parse_logical_drive", [VdiskEntry(1, st) EXCEPT !.Layout = ly], <<>>) :
        st \in Codes, ly \in Codes }
    \cup { Input("parse_physical_drive", PdEntry(1, st, ss), <<>>) : st \in Codes, ss \in Codes }
    \cup { Input("name", c, d) : c \in IdTexts, d \in IdTexts }
    \cup { Input(path, d1, d2) : path \in ReadPaths, d1 \in ReadDocs,
                                 d2 \in {NoSectionDoc, Doc("Controllers", <<CtlEntry(0)>>, <<>>)} }

\* the read path named, given its first response and, for get_controllers,
\* the response to each controller's own query
ReadPath(path, doc, doc2) ==
    CASE path = "get_controllers" ->
            GetControllers(doc, [i \in 1..Len(doc.entries) |-> Ok(doc2)])
      [] path = "Controller" -> ControllerInit(CtlId, doc)
      [] path = "Controller.get_logical_drives" -> GetLogicalDrives(CtlId, doc)
      [] path = "Controller.get_physical_drives" -> ControllerGetPhysicalDrives(CtlId, doc)
      [] path = "LogicalDrive" -> LogicalDriveInit(CtlId, <<"1">>, doc)
      [] path = "LogicalDrive.get_physical_drives" -> LogicalDriveGetPhysicalDrives(doc)
      [] path = "PhysicalDrive" -> PhysicalDriveInit(CtlId, PdSpec(1), doc)

Applied(fn, out) ==
    /\ p_out = None
    /\ p_in.fn = fn
    /\ p_out' = out
    /\ UNCHANGED p_in

ApplyParseLogicalDrive ==
    Applied("parse_logical_drive", ParseLogicalDrive(p_in.a))
ApplyParsePhysicalDrive ==
    Applied("parse_physical_drive", ParsePhysicalDrive(p_in.a))
ApplyParseName ==
    Applied("name", ParseName(FormatName(p_in.a, p_in.b)))
ApplyReadPath ==
    \E path \in ReadPaths : Applied(path, ReadPath(path, p_in.a, p_in.b))

InitPure ==
    /\ WorkflowIdle /\ FacadeIdle
    /\ p_in \in PureInputs
    /\ p_out = None

NextPure ==
    \/ ApplyParseLogicalDrive /\ UNCHANGED <<wvars, fvars>>
    \/ ApplyParsePhysicalDrive /\ UNCHANGED <<wvars, fvars>>
    \/ ApplyParseName /\ UNCHANGED <<wvars, fvars>>
    \/ ApplyReadPath /\ UNCHANGED <<wvars, fvars>>

SpecPure == InitPure /\ [][NextPure]_vars

\* the function named was applied to the input drawn
Computed(fn) == p_in.fn = fn /\ p_out # None
UnknownStatusCode == Raise("KeyError", "UnknownStatusCode")

\* C6: the normalization maps each known code to its listed value
\* (logical-drive status 2 Online, 4 Failed; layout 2 RAID-0, 4 RAID-1;
\* physical-drive state 1 Ready, 2 Failed, 4 Online; status 2 Ok,
\* 3 Non-Critical, 4 Failed) and fails with UnknownStatusCode on any record
\* holding another code; it returns no default.
C6_CodeTables ==
    /\ Computed("parse_logical_drive") =>
        LET st == p_in.a.ObjStatus
            ly == p_in.a.Layout
        IN  IF st \in {"2", "4"} /\ ly \in {"2", "4"}
            THEN /\ IsOk(p_out)
                 /\ p_out.val.status = (IF st = "2" THEN "Online" ELSE "Failed")
                 /\ p_out.val.type = (IF ly = "2" THEN "RAID-0" ELSE "RAID-1")
            ELSE p_out = UnknownStatusCode
    /\ Computed("parse_physical_drive") =>
        LET st == p_in.a.ObjState
            ss == p_in.a.ObjStatus
        IN  IF st \in {"1", "2", "4"} /\ ss \in {"2", "3", "4"}
            THEN /\ IsOk(p_out)
                 /\ p_out.val.state =
                        (IF st = "1" THEN "Ready" ELSE IF st = "2" THEN "Failed" ELSE "Online")
                 /\ p_out.val.status =
                        (IF ss = "2" THEN "Ok" ELSE IF ss = "3" THEN "Non-Critical" ELSE "Failed")
            ELSE p_out = UnknownStatusCode

\* a logical drive whose status code is 3, known for a physical drive only,
\* was refused
C6_Witness ==
    /\ Computed("parse_logical_drive")
    /\ p_in.a.ObjStatus = "3" /\ p_in.a.Layout = "4"
    /\ p_out = UnknownStatusCode

\* an identifier: a text of decimal digits
ValidId(t) == \A i \in 1..Len(t) : t[i] \in {"0", "1", "2", "3", "4", "5", "6", "7", "8", "9"}

\* C7: parsing the name c<controllerId>u<driveId> of a valid pair of
\* identifiers yields that pair, and c2u35 parses to controller 2, drive 35.
C7_NameRoundTrip ==
    /\ (Computed("name") /\ ValidId(p_in.a) /\ ValidId(p_in.b)) =>
            p_out = Ok(<<p_in.a, p_in.b>>)
    /\ ParseName(<<"c", "2", "u", "3", "5">>) = Ok(<< <<"2">>, <<"3", "5">> >>)

\* the name of drive 35 of controller 2 was formatted and parsed back
C7_Witness ==
    /\ Computed("name")
    /\ p_in.a = <<"2">> /\ p_in.b = <<"3", "5">>
    /\ p_out = Ok(<< <<"2">>, <<"3", "5">> >>)

\* the container node a read path expects
ExpectedSection(path) ==
    CASE path \in {"get_controllers", "Controller"} -> "Controllers"
      [] path \in {"Controller.get_logical_drives", "LogicalDrive"} -> "VirtualDisks"
      [] path \in {"Controller.get_physical_drives", "LogicalDrive.get_physical_drives",
                   "PhysicalDrive"} -> "ArrayDisks"

\* C8: a read path whose response lacks the container node it expects fails
\* with MissingSection (for get_controllers: the listing, or the response to
\* the first controller's own query); it returns nothing and raises nothing
\* else.
C8_MissingSection ==
    \A path \in ReadPaths :
        Computed(path) =>
            /\ ~HasSection(p_in.a, ExpectedSection(path)) => p_out = MissingSection
            /\ (/\ path = "get_controllers"
                /\ HasSection(p_in.a, "Controllers")
                /\ p_in.a.entries # <<>>
                /\ ~HasSection(p_in.b, "Controllers")) => p_out = MissingSection

\* the listing of logical drives was answered with another container
C8_Witness ==
    /\ Computed("Controller.get_logical_drives")
    /\ p_in.a.section = "ArrayDisks" /\ p_in.a.entries # <<>>
    /\ p_out = MissingSection

---------------------------------------------------------------------------
(* Properties of one create or delete operation, through either entry *)

\* what the caller of the operation receives: the backend's outcome, or,
\* through logical_drive_create and logical_drive_delete, the payload or the
\* text their `except:` returns
Response ==
    IF via # "facade" THEN result
    ELSE IF op = "delete" THEN LogicalDriveDelete(result)
    ELSE TryExcept(result, "Failed to create a logical drive")

MutatingCommands == {"omconfig createvdisk", "omconfig deletevdisk"}
\* the places of the operation's command log where a mutating command was run
Invocations == { i \in DOMAIN cmds : cmds[i] \in MutatingCommands }
\* the mutating command was run and did not answer with a success indicator
\* (the run failed, or the exit check did)
CommandFailed == Invocations # {} /\ ~ExitSuccess

\* C11: in one create or delete operation, entered through the backend or
\* through the facade, the createvdisk or deletevdisk command is run at most
\* once whatever fails at any step; when that command failed the operation has
\* ended with an error (a diagnostic text through the facade) and the command
\* is the last one it ran: it is not run again.
C11_MutatingCommandAtMostOnce ==
    op \in {"create", "delete"} =>
        /\ Cardinality(Invocations) <= 1
        /\ CommandFailed =>
            /\ pc = "done"
            /\ IsRaise(result)
            /\ cmds[Len(cmds)] \in MutatingCommands
            /\ via = "facade" => Response.kind = "diag"

\* a create called through the facade whose creation command answered with a
\* failure indicator: one createvdisk in the log, a diagnostic returned
C11_Witness ==
    /\ op = "create" /\ via = "facade" /\ pc = "done"
    /\ IsOk(stat) /\ stat.val = <<"1">>
    /\ cmds = <<"omreport controller", "omreport vdisk list", "omconfig createvdisk">>
    /\ Response = Diag("Failed to create a logical drive")

\* the delete command was run in this operation
DeleteInvoked == \E i \in DOMAIN cmds : cmds[i] = "omconfig deletevdisk"

\* the state of a delete operation: the command is issued only once the
\* drive's fields and physical drives are captured, after the two reads that
\* capture them; an operation ended without a capture has failed, has not run
\* the command, and through the facade has returned its diagnostic
CapturedBeforeCommand ==
    op = "delete" =>
        /\ (pc = "d_cmd" \/ DeleteInvoked) =>
            /\ held # None /\ held.id = arg
            /\ info # None /\ info.id = arg
            /\ info.device_path = held.device_path
            /\ info.status = held.status /\ info.type = held.type
            /\ SubSeq(cmds, 1, 2) = <<"omreport vdisk", "omreport pdisk vdisk">>
        /\ DeleteInvoked => Len(cmds) = 3
        /\ (pc = "done" /\ info = None) =>
            /\ IsRaise(result)
            /\ ~DeleteInvoked
            /\ via = "facade" => Response = Diag("Failed to delete logical drive")

\* a step of a delete operation that runs a command other than the delete
\* command (the lookup and the capture, failed or not) leaves the controller's
\* logical drives as they are
ReadStepKeepsDrives ==
    (op' = "delete" /\ cmds' # cmds /\ cmds'[Len(cmds')] # "omconfig deletevdisk")
        => vdisks' = vdisks

\* C12: in a delete, the drive's state (its fields and its backing physical
\* drives) is captured before the delete command is issued; when the lookup
\* or the capture fails (drive not found, missing section, unknown code) the
\* delete command is never run and the steps of the failed operation leave
\* the controller's set of logical drives unchanged.
C12_CaptureBeforeDelete ==
    []CapturedBeforeCommand /\ [][ReadStepKeepsDrives]_vars

\* a delete through the facade of a drive that is present, whose lookup met
\* an unknown status code: ended without capture, the drive still there
C12_Witness ==
    /\ op = "delete" /\ via = "facade" /\ pc = "done"
    /\ info = None
    /\ result = Raise("KeyError", "UnknownStatusCode")
    /\ cmds = <<"omreport vdisk">>
    /\ IdNum(arg) \in Present

====
